---- MODULE Spec2Model ----
(***************************************************************************)
(* MethodOverrideMiddleware (wsgi_method_override.py): a WSGI middleware   *)
(* that rewrites REQUEST_METHOD of a POST request from a form field or a   *)
(* header before calling the wrapped application.                          *)
(*                                                                         *)
(* Text is modelled as a sequence of one-character strings, so that        *)
(* upper(), strip(), the form parser and the header-name conversions are   *)
(* computed character by character.  A body is a sequence of bytes: an     *)
(* ASCII byte is its character, "0xFF" is a byte that is not valid UTF-8.  *)
(***************************************************************************)
EXTENDS Integers, Sequences, FiniteSets, TLC

VARIABLES
    mw,               \* "unbuilt" before __init__ has run, "built" after
    ctor_args,        \* the arguments __init__ was given
    allowed_methods,  \* self.allowed_methods
    bodyless_methods, \* self.bodyless_methods
    override_param,   \* self.override_param
    header_override,  \* self.header_override
    pc,               \* per call: position in __call__
    environ,          \* per call: the WSGI environ dict (without wsgi.input)
    wsgi_input,       \* per call: the environ's wsgi.input stream
    arrived,          \* per call: environ and stream as they arrived
    original_method,  \* per call: local original_method
    override_method,  \* per call: local override_method
    fault,            \* per call: the exception raised inside the try block
    app_calls,        \* per call: how often self.app was invoked
    app_seen,         \* per call: what self.app was handed
    result,           \* per call: what __call__ returned
    unit_fn,          \* the helper method last called directly
    unit_args,        \* its arguments
    unit_ret          \* its return value

cfgvars == <<mw, ctor_args, allowed_methods, bodyless_methods, override_param,
             header_override>>
callvars == <<pc, environ, wsgi_input, arrived, original_method,
              override_method, fault, app_calls, app_seen, result>>
unitvars == <<unit_fn, unit_args, unit_ret>>
vars == <<cfgvars, callvars, unitvars>>

----------------------------------------------------------------------------
(* Bounds *)

\* Number of calls of the middleware that may be in flight together.
MaxCalls == 2

Calls == 1..MaxCalls

----------------------------------------------------------------------------
(* Python values *)

\* Python's None, where a text value is expected.
None == <<"<None>">>

\* The key that is missing from every dict.
Missing == <<"<missing>">>

LowerChars == <<"a", "b", "c", "d", "e", "f", "g", "h", "i", "j", "k", "l", "m", "n", "o", "p", "q", "r", "s", "t", "u", "v", "w", "x", "y", "z">>

UpperChars == <<"A", "B", "C", "D", "E", "F", "G", "H", "I", "J", "K", "L", "M", "N", "O", "P", "Q", "R", "S", "T", "U", "V", "W", "X", "Y", "Z">>

Digits == <<"0", "1", "2", "3", "4", "5", "6", "7", "8", "9">>

Whitespace == {" "}

\* The replacement character a lenient decoder puts for an undecodable byte.
ReplacementChar == "U+FFFD"

InvalidByte == "0xFF"

\* F(x), with x evaluated once however often F uses it.
Let(x, F(_)) == CHOOSE r \in {F(v) : v \in {x}} : TRUE

IndexOf(seq, c) == CHOOSE i \in 1..Len(seq) : seq[i] = c

Contains(seq, c) == \E i \in 1..Len(seq) : seq[i] = c

ElementsOf(seq) == {seq[i] : i \in 1..Len(seq)}

LowerChar(c) == IF Contains(UpperChars, c) THEN LowerChars[IndexOf(UpperChars, c)] ELSE c

\* str.lower()
Lower(s) == Let(s, LAMBDA t : [i \in 1..Len(t) |-> LowerChar(t[i])])

UpperChar(c) == IF Contains(LowerChars, c) THEN UpperChars[IndexOf(LowerChars, c)] ELSE c

\* str.upper()
Upper(s) == Let(s, LAMBDA t : [i \in 1..Len(t) |-> UpperChar(t[i])])

Min(S) == CHOOSE x \in S : \A y \in S : x <= y

Max(S) == CHOOSE x \in S : \A y \in S : x >= y

\* str.strip()
Strip(s) ==
    Let(s, LAMBDA t :
        Let({i \in 1..Len(t) : t[i] \notin Whitespace}, LAMBDA keep :
            IF keep = {} THEN <<>> ELSE SubSeq(t, Min(keep), Max(keep))))

\* str.replace(a, b) for single characters
ReplaceChar(s, a, b) == Let(s, LAMBDA t : [i \in 1..Len(t) |-> IF t[i] = a THEN b ELSE t[i]])

\* str.startswith(p)
StartsWith(s, p) == Len(s) >= Len(p) /\ SubSeq(s, 1, Len(p)) = p

\* Python truthiness of a text value or None.
Truthy(s) == s # None /\ s # <<>>

\* int(s) of a decimal text; None when s is not a decimal number.
RECURSIVE DecimalValue(_)
DecimalValue(s) ==
    Let(s, LAMBDA t :
        IF t = <<>> THEN 0
        ELSE 10 * DecimalValue(SubSeq(t, 1, Len(t) - 1)) + (IndexOf(Digits, t[Len(t)]) - 1))

IsDecimal(s) == s # None /\ Len(s) > 0 /\ \A i \in 1..Len(s) : Contains(Digits, s[i])

\* dict.get(key, default)
DictGet(d, k, default) == IF k \in DOMAIN d THEN d[k] ELSE default

\* d[key] = value
DictPut(d, k, v) == [x \in (DOMAIN d) \cup {k} |-> IF x = k THEN v ELSE d[x]]

\* d.pop(key, None)
DictPop(d, k) == [x \in (DOMAIN d) \ {k} |-> d[x]]

----------------------------------------------------------------------------
(* Names *)

GET == <<"G", "E", "T">>

POST == <<"P", "O", "S", "T">>

PUT == <<"P", "U", "T">>

PATCH == <<"P", "A", "T", "C", "H">>

DELETE == <<"D", "E", "L", "E", "T", "E">>

HEAD == <<"H", "E", "A", "D">>

OPTIONS == <<"O", "P", "T", "I", "O", "N", "S">>

TRACE == <<"T", "R", "A", "C", "E">>

K_REQUEST_METHOD == <<"R", "E", "Q", "U", "E", "S", "T", "_", "M", "E", "T", "H", "O", "D">>

K_CONTENT_LENGTH == <<"C", "O", "N", "T", "E", "N", "T", "_", "L", "E", "N", "G", "T", "H">>

K_CONTENT_TYPE == <<"C", "O", "N", "T", "E", "N", "T", "_", "T", "Y", "P", "E">>

K_PATH_INFO == <<"P", "A", "T", "H", "_", "I", "N", "F", "O">>

K_HTTP_OVERRIDE == <<"H", "T", "T", "P", "_", "X", "_", "H", "T", "T", "P", "_", "M", "E", "T", "H", "O", "D", "_", "O", "V", "E", "R", "R", "I", "D", "E">>

K_HTTP_ACCEPT == <<"H", "T", "T", "P", "_", "A", "C", "C", "E", "P", "T">>

K_HTTP_CUSTOM == <<"H", "T", "T", "P", "_", "C", "U", "S", "T", "O", "M", "_", "H", "E", "A", "D", "E", "R">>

K_HTTP_MIXED == <<"H", "T", "T", "P", "_", "x", "_", "T", "r", "a", "c", "e", "_", "i", "d">>

HttpPrefix == <<"H", "T", "T", "P", "_">>

FormUrlEncoded == <<"a", "p", "p", "l", "i", "c", "a", "t", "i", "o", "n", "/", "x", "-", "w", "w", "w", "-", "f", "o", "r", "m", "-", "u", "r", "l", "e", "n", "c", "o", "d", "e", "d">>

ApplicationJson == <<"a", "p", "p", "l", "i", "c", "a", "t", "i", "o", "n", "/", "j", "s", "o", "n">>

----------------------------------------------------------------------------
(* __init__ *)

DEFAULT_ALLOWED_METHODS == {GET, POST, PUT, PATCH, DELETE, HEAD, OPTIONS}

DEFAULT_BODYLESS_METHODS == {GET, HEAD, OPTIONS, DELETE}

DefaultOverrideParam == <<"_", "m", "e", "t", "h", "o", "d">>

DefaultHeaderOverride == <<"X", "-", "H", "T", "T", "P", "-", "M", "e", "t", "h", "o", "d", "-", "O", "v", "e", "r", "r", "i", "d", "e">>

\* An Optional[Iterable[str]] argument: None, a sized container (list, set,
\* tuple), or an iterator (generator, map, filter) over the items.
NoArg == [kind |-> "none", items |-> <<>>]

ListArg(items) == [kind |-> "list", items |-> items]

IterArg(items) == [kind |-> "iter", items |-> items]

\* bool(arg): None is false, a sized container is true when it has items, an
\* iterator defines neither __bool__ nor __len__ and is always true.
ArgTruthy(arg) ==
    CASE arg.kind = "none" -> FALSE
      [] arg.kind = "list" -> Len(arg.items) > 0
      [] arg.kind = "iter" -> TRUE

\* frozenset(method.upper() for method in (arg or default))
EffectiveMethods(arg, default) ==
    IF ArgTruthy(arg) THEN {Upper(m) : m \in ElementsOf(arg.items)}
    ELSE {Upper(m) : m \in default}

\* The assignments of __init__.
InitMiddleware(args) ==
    /\ allowed_methods' = EffectiveMethods(args.allowed_methods, DEFAULT_ALLOWED_METHODS)
    /\ bodyless_methods' = EffectiveMethods(args.bodyless_methods, DEFAULT_BODYLESS_METHODS)
    /\ override_param' = args.override_param
    /\ header_override' = args.header_override
    /\ ctor_args' = args
    /\ mw' = "built"

----------------------------------------------------------------------------
(* The request wrapper used by _get_override_method: request.form and      *)
(* request.headers of werkzeug.wrappers.Request, as far as lines 85-93     *)
(* use them.                                                               *)

\* A wsgi.input stream: the bytes and the read cursor; present = FALSE is
\* an environ without the wsgi.input key.
Stream(present, data) == [present |-> present, data |-> data, pos |-> 0]

\* No content length (absent or not a number).
NoLength == -1

\* request.content_length: int(environ["CONTENT_LENGTH"]), or None.
ContentLength(env) ==
    LET v == DictGet(env, K_CONTENT_LENGTH, None)
    IN  IF IsDecimal(v) THEN DecimalValue(v) ELSE NoLength

\* request.mimetype: the content type without parameters, lowercased.
Mimetype(env) ==
    Let(DictGet(env, K_CONTENT_TYPE, <<>>), LAMBDA v :
        Let({i \in 1..Len(v) : v[i] = ";"}, LAMBDA semi :
            Lower(Strip(SubSeq(v, 1, IF semi = {} THEN Len(v) ELSE Min(semi) - 1)))))

\* s.split(sep) for a single-character separator.
RECURSIVE SplitOn(_, _)
SplitOn(s, sep) ==
    Let(s, LAMBDA t :
        Let({i \in 1..Len(t) : t[i] = sep}, LAMBDA at :
            IF at = {} THEN <<t>>
            ELSE <<SubSeq(t, 1, Min(at) - 1)>> \o SplitOn(SubSeq(t, Min(at) + 1, Len(t)), sep)))

\* One name=value piece of a query string: split at the first "=", a piece
\* without "=" has a blank value; "+" decodes to a space.
QslPair(piece) ==
    Let({i \in 1..Len(piece) : piece[i] = "="}, LAMBDA at :
        Let(IF at = {} THEN Len(piece) + 1 ELSE Min(at), LAMBDA i :
            << ReplaceChar(SubSeq(piece, 1, i - 1), "+", " "),
               ReplaceChar(SubSeq(piece, i + 1, Len(piece)), "+", " ") >>))

\* urllib.parse.parse_qsl(text, keep_blank_values=True): the pairs in order,
\* empty pieces skipped.
ParseQsl(text) ==
    Let(SelectSeq(SplitOn(text, "&"), LAMBDA p : p # <<>>), LAMBDA pieces :
        [i \in 1..Len(pieces) |-> QslPair(pieces[i])])

\* bytes.decode(errors="replace")
DecodeReplace(bytes) == ReplaceChar(bytes, InvalidByte, ReplacementChar)

\* How the form parser of the installed werkzeug treats a body that is not
\* valid UTF-8: older releases decode with errors="replace", newer ones
\* raise RequestEntityTooLarge from the failed bytes.decode().
DecodeModes == {"replace", "strict"}

\* request.form, first access (Request._load_form_data): the exception it
\* raises ("none" for none), the parsed fields, and the stream cursor after.
\*   - the stream is fetched with environ["wsgi.input"]: KeyError if absent;
\*   - without a content type nothing is parsed and nothing is read;
\*   - a urlencoded body is read up to the content length (nothing at all
\*     without a content length) and never rewound;
\*   - any other content type gives no fields and reads nothing.
LoadForm(env, stream, mode) ==
    IF ~stream.present
    THEN [exc |-> "KeyError", form |-> <<>>, pos |-> stream.pos]
    ELSE IF ~Truthy(DictGet(env, K_CONTENT_TYPE, None))
    THEN [exc |-> "none", form |-> <<>>, pos |-> stream.pos]
    ELSE IF Mimetype(env) # FormUrlEncoded
    THEN [exc |-> "none", form |-> <<>>, pos |-> stream.pos]
    ELSE IF ContentLength(env) = NoLength
    THEN [exc |-> "none", form |-> <<>>, pos |-> stream.pos]
    ELSE Let(Min({ContentLength(env), Len(stream.data) - stream.pos}), LAMBDA n :
             Let(SubSeq(stream.data, stream.pos + 1, stream.pos + n), LAMBDA raw :
                 IF Contains(raw, InvalidByte) /\ mode = "strict"
                 THEN [exc |-> "RequestEntityTooLarge", form |-> <<>>, pos |-> stream.pos + n]
                 ELSE [exc |-> "none", form |-> ParseQsl(DecodeReplace(raw)),
                       pos |-> stream.pos + n]))

\* key in request.form
FormContains(form, key) == \E i \in 1..Len(form) : form[i][1] = key

\* request.form.get(key, default): the first value of the key.
FormGet(form, key, default) ==
    IF FormContains(form, key)
    THEN form[CHOOSE i \in 1..Len(form) :
                 form[i][1] = key /\ \A j \in 1..(i - 1) : form[j][1] # key][2]
    ELSE default

\* The environ key request.headers looks a header name up under.
EnvironKey(name) ==
    LET k == ReplaceChar(Upper(name), "-", "_")
    IN  IF k \in {K_CONTENT_TYPE, K_CONTENT_LENGTH} THEN k ELSE HttpPrefix \o k

\* request.headers.get(name, default)
HeadersGet(env, name, default) == DictGet(env, EnvironKey(name), default)

----------------------------------------------------------------------------
(* _get_override_method *)

\* The form branch: the stripped, uppercased first value of the override
\* field, "" when the field is not in the form.
FormHint(form, param) ==
    IF FormContains(form, param) THEN Upper(Strip(FormGet(form, param, <<>>))) ELSE <<>>

\* The header branch: the stripped, uppercased header value, "" when header
\* override is switched off (None or "") or the header is absent.
HeaderHint(env, header) ==
    IF Truthy(header) THEN Upper(Strip(HeadersGet(env, header, <<>>))) ELSE <<>>

\* Faulty variant: the header is consulted before the form.
ChooseHintHeaderFirst(formHint, headerHint) ==
    IF headerHint # <<>> THEN headerHint
    ELSE IF formHint # <<>> THEN formHint
    ELSE None

\* The order of the two returns and the final return None.
ChooseHint(formHint, headerHint) ==
    IF formHint # <<>> THEN formHint
    ELSE IF headerHint # <<>> THEN headerHint
    ELSE None

\* _get_override_method(request): the exception that escapes it, the value
\* it returns, and the stream cursor it leaves.
GetOverrideMethod(env, stream, param, header, mode) ==
    Let(LoadForm(env, stream, mode), LAMBDA f :
        IF f.exc # "none"
        THEN [exc |-> f.exc, method |-> None, pos |-> f.pos]
        ELSE [exc |-> "none",
              method |-> ChooseHint(FormHint(f.form, param), HeaderHint(env, header)),
              pos |-> f.pos])

----------------------------------------------------------------------------
(* _is_override_allowed *)

\* Faulty variant: the check that the original method is POST is missing.
IsOverrideAllowedAnyOriginal(original, override, allowed) ==
    IF override \notin allowed THEN FALSE
    ELSE IF original = override THEN FALSE
    ELSE TRUE

\* Faulty variant: the check that the two methods differ is missing.
IsOverrideAllowedNoSameCheck(original, override, allowed) ==
    IF original # POST THEN FALSE
    ELSE IF override \notin allowed THEN FALSE
    ELSE TRUE

IsOverrideAllowed(original, override, allowed) ==
    IF original # POST THEN FALSE
    ELSE IF override \notin allowed THEN FALSE
    ELSE IF original = override THEN FALSE
    ELSE TRUE

----------------------------------------------------------------------------
(* __call__ *)

\* Faulty variant: the body metadata is cleared for every override.
ApplyOverrideAlwaysClear(env, method, bodyless) ==
    DictPop(DictPut(DictPut(env, K_REQUEST_METHOD, method), K_CONTENT_LENGTH, <<"0">>),
            K_CONTENT_TYPE)

\* Lines 71-75: the new method, and for a bodyless one CONTENT_LENGTH "0"
\* and no CONTENT_TYPE.
ApplyOverride(env, method, bodyless) ==
    LET e1 == DictPut(env, K_REQUEST_METHOD, method)
    IN  IF method \in bodyless
        THEN DictPop(DictPut(e1, K_CONTENT_LENGTH, <<"0">>), K_CONTENT_TYPE)
        ELSE e1

\* The exceptions the try block can raise; all derive from Exception.
Exceptions == {"KeyError", "RequestEntityTooLarge", "Exception"}

\* Faulty variant: only ValueError is caught.
CatchesOnlyValueError(exc) == exc = "ValueError"

\* except Exception: every exception the try block raises is caught.
Catches(exc) == exc \in Exceptions

\* Faulty variant: every call works on the environ of call 1.
OwnEnvironShared(c) == environ[1]

\* The environ argument of the call.
OwnEnviron(c) == environ[c]

\* return self.app(environ, start_response)
ReturnValue(response) == response

\* What the application can read from wsgi.input when it is handed the
\* environ: the bytes from the cursor on (nothing without a stream).
Readable(stream) ==
    IF stream.present THEN SubSeq(stream.data, stream.pos + 1, Len(stream.data)) ELSE <<>>

\* What the wrapped application is handed.
Seen(env, stream) ==
    [ method |-> DictGet(env, K_REQUEST_METHOD, Missing),
      content_length |-> DictGet(env, K_CONTENT_LENGTH, Missing),
      content_type |-> DictGet(env, K_CONTENT_TYPE, Missing),
      pos |-> stream.pos,
      body |-> Readable(stream) ]

NotSeen == [method |-> Missing, content_length |-> Missing, content_type |-> Missing,
            pos |-> 0, body |-> <<>>]

InTry == {"Start", "Constructed", "Extracted", "Allowed"}

NoFault == [exc |-> "none", at |-> "none"]

\* An exception inside the try block, raised at position pc[c]: caught by
\* line 77, or leaving the call.
Raise(c, exc) ==
    /\ fault' = [fault EXCEPT ![c] = [exc |-> exc, at |-> pc[c]]]
    /\ pc' = [pc EXCEPT ![c] = IF Catches(exc) THEN "Caught" ELSE "Raised"]

\* Lines 61-62: the request wrapper and original_method.
Construct(c) ==
    /\ pc[c] = "Start"
    /\ original_method' = [original_method EXCEPT ![c] = DictGet(OwnEnviron(c), K_REQUEST_METHOD, GET)]
    /\ pc' = [pc EXCEPT ![c] = "Constructed"]
    /\ UNCHANGED <<cfgvars, unitvars, environ, wsgi_input, arrived, override_method,
                   fault, app_calls, app_seen, result>>

\* _get_override_method(request) as call c makes it.
Extraction(c, mode) ==
    GetOverrideMethod(OwnEnviron(c), wsgi_input[c], override_param, header_override, mode)

\* Line 63: override_method = self._get_override_method(request) returns.
Extract(c) ==
    /\ pc[c] = "Constructed"
    /\ \E mode \in DecodeModes : \E r \in {Extraction(c, mode)} :
         /\ r.exc = "none"
         /\ wsgi_input' = [wsgi_input EXCEPT ![c].pos = r.pos]
         /\ override_method' = [override_method EXCEPT ![c] = r.method]
    /\ pc' = [pc EXCEPT ![c] = "Extracted"]
    /\ UNCHANGED <<cfgvars, unitvars, environ, arrived, original_method, fault,
                   app_calls, app_seen, result>>

\* Line 63: the form access inside _get_override_method raises.
ExtractRaises(c) ==
    /\ pc[c] = "Constructed"
    /\ \E mode \in DecodeModes : \E r \in {Extraction(c, mode)} :
         /\ r.exc # "none"
         /\ wsgi_input' = [wsgi_input EXCEPT ![c].pos = r.pos]
         /\ Raise(c, r.exc)
    /\ UNCHANGED <<cfgvars, unitvars, environ, arrived, original_method,
                   override_method, app_calls, app_seen, result>>

\* Line 65, override_method is None: the if is not entered.
NoOverride(c) ==
    /\ pc[c] = "Extracted"
    /\ ~Truthy(override_method[c])
    /\ pc' = [pc EXCEPT ![c] = "Unchanged"]
    /\ UNCHANGED <<cfgvars, unitvars, environ, wsgi_input, arrived, original_method,
                   override_method, fault, app_calls, app_seen, result>>

\* Lines 65-67, _is_override_allowed returns False.
Deny(c) ==
    /\ pc[c] = "Extracted"
    /\ Truthy(override_method[c])
    /\ ~IsOverrideAllowed(original_method[c], override_method[c], allowed_methods)
    /\ pc' = [pc EXCEPT ![c] = "Unchanged"]
    /\ UNCHANGED <<cfgvars, unitvars, environ, wsgi_input, arrived, original_method,
                   override_method, fault, app_calls, app_seen, result>>

\* Lines 65-67, _is_override_allowed returns True.
Allow(c) ==
    /\ pc[c] = "Extracted"
    /\ Truthy(override_method[c])
    /\ IsOverrideAllowed(original_method[c], override_method[c], allowed_methods)
    /\ pc' = [pc EXCEPT ![c] = "Allowed"]
    /\ UNCHANGED <<cfgvars, unitvars, environ, wsgi_input, arrived, original_method,
                   override_method, fault, app_calls, app_seen, result>>

\* Lines 68-75: the environ is rewritten.
Mutate(c) ==
    /\ pc[c] = "Allowed"
    /\ environ' = [environ EXCEPT ![c] = ApplyOverride(OwnEnviron(c), override_method[c],
                                                        bodyless_methods)]
    /\ pc' = [pc EXCEPT ![c] = "Mutated"]
    /\ UNCHANGED <<cfgvars, unitvars, wsgi_input, arrived, original_method,
                   override_method, fault, app_calls, app_seen, result>>

\* An exception raised by something the try block calls (the transport's
\* stream, a logging handler): lines 77-78 catch it.
Fault(c) ==
    /\ pc[c] \in InTry
    /\ Raise(c, "Exception")
    /\ UNCHANGED <<cfgvars, unitvars, environ, wsgi_input, arrived, original_method,
                   override_method, app_calls, app_seen, result>>

Responses == {"r1", "r2"}

\* Line 80: the application is called and its return value returned.
Forward(c) ==
    /\ pc[c] \in {"Mutated", "Unchanged", "Caught"}
    /\ \E response \in Responses :
         /\ app_seen' = [app_seen EXCEPT ![c] =
                           [seen |-> Seen(OwnEnviron(c), wsgi_input[c]),
                            response |-> response]]
         /\ result' = [result EXCEPT ![c] = ReturnValue(response)]
    /\ app_calls' = [app_calls EXCEPT ![c] = @ + 1]
    /\ pc' = [pc EXCEPT ![c] = "Forwarded"]
    /\ UNCHANGED <<cfgvars, unitvars, environ, wsgi_input, arrived, original_method,
                   override_method, fault>>

Step(c) ==
    \/ Construct(c)
    \/ Extract(c)
    \/ ExtractRaises(c)
    \/ NoOverride(c)
    \/ Deny(c)
    \/ Allow(c)
    \/ Mutate(c)
    \/ Fault(c)
    \/ Forward(c)

Next == \E c \in Calls : Step(c)

----------------------------------------------------------------------------
(* The helper methods called directly *)

\* A header name from an environ key: prefix stripped, uppercased,
\* underscores turned into hyphens.
HeaderName(key) ==
    ReplaceChar(Upper(SubSeq(key, Len(HttpPrefix) + 1, Len(key))), "_", "-")

\* Faulty variant: the prefix is not checked.
IsHeaderKeyAny(key) == Len(key) > Len(HttpPrefix)

IsHeaderKey(key) == StartsWith(key, HttpPrefix)

\* _get_headers(environ): the HTTP_ entries of the environ under their
\* header names.
GetHeaders(env) ==
    LET keys == {k \in DOMAIN env : IsHeaderKey(k)}
        names == {HeaderName(k) : k \in keys}
    IN  [n \in names |-> env[CHOOSE k \in keys : HeaderName(k) = n]]

\* __init__ is called.
Build(args) ==
    /\ mw = "unbuilt"
    /\ InitMiddleware(args)
    /\ UNCHANGED <<callvars, unitvars>>

\* self._is_override_allowed(original, override) is called.
CallIsOverrideAllowed(original, override) ==
    /\ mw = "built"
    /\ unit_fn = "none"
    /\ unit_fn' = "_is_override_allowed"
    /\ unit_args' = <<original, override>>
    /\ unit_ret' = IsOverrideAllowed(original, override, allowed_methods)
    /\ UNCHANGED <<cfgvars, callvars>>

\* self._get_headers(environ) is called.
CallGetHeaders(env) ==
    /\ mw = "built"
    /\ unit_fn = "none"
    /\ unit_fn' = "_get_headers"
    /\ unit_args' = env
    /\ unit_ret' = GetHeaders(env)
    /\ UNCHANGED <<cfgvars, callvars>>

----------------------------------------------------------------------------
(* Inputs *)

\* str(n)
RECURSIVE DecimalText(_)
DecimalText(n) ==
    IF n < 10 THEN <<Digits[n + 1]>>
    ELSE DecimalText(n \div 10) \o <<Digits[(n % 10) + 1]>>

\* An environ from its entries; Missing leaves the key out.
MakeEnviron(method, length, ctype, header) ==
    LET all == (K_REQUEST_METHOD :> method) @@ (K_CONTENT_LENGTH :> length)
               @@ (K_CONTENT_TYPE :> ctype) @@ (K_HTTP_OVERRIDE :> header)
    IN  [k \in {x \in DOMAIN all : all[x] # Missing} |-> all[k]]

Request(env, stream) == [environ |-> env, stream |-> stream]

SampleMethods == {Missing, POST, GET, <<"p", "o", "s", "t">>}

SampleBodies ==
    { <<"_", "m", "e", "t", "h", "o", "d", "=", "P", "U", "T", "&", "n", "a", "m", "e", "=", "x">>,
      <<"_", "m", "e", "t", "h", "o", "d", "=", "d", "e", "l", "e", "t", "e">>,
      <<"_", "m", "e", "t", "h", "o", "d", "=", "&", "n", "a", "m", "e", "=", "x">>,
      <<"_", "m", "e", "t", "h", "o", "d", "=", "+", "&", "n", "a", "m", "e", "=", "x">>,
      <<"n", "a", "m", "e", "=", "x">>,
      <<"0xFF", "_", "m", "e", "t", "h", "o", "d", "=", "P", "U", "T">>,
      <<>>,
      <<"_", "m", "e", "t", "h", "o", "d", "=", "T", "R", "A", "C", "E">>,
      <<"_", "m", "e", "t", "h", "o", "d", "=", "P", "O", "S", "T">>,
      <<"_", "m", "e", "t", "h", "o", "d", "=", "+", "p", "a", "t", "c", "h", "+", "&", "_", "m", "e", "t", "h", "o", "d", "=", "P", "U", "T">>,
      <<"m", "=", "P", "U", "T", "&", "_", "m", "e", "t", "h", "o", "d", "=", "D", "E", "L", "E", "T", "E">> }

SampleLengths(body) == {Missing, <<"0">>, DecimalText(Len(body)), <<"9">>}

SampleContentTypes == {Missing, FormUrlEncoded, ApplicationJson}

SampleHeaders == {Missing, <<"P", "A", "T", "C", "H">>, <<" ", "d", "e", "l", "e", "t", "e", " ">>, <<" ">>}

Requests ==
    UNION { { Request(MakeEnviron(m, l, t, h), Stream(TRUE, b)) :
                m \in SampleMethods, l \in SampleLengths(b),
                t \in SampleContentTypes, h \in SampleHeaders } : b \in SampleBodies }
    \cup { Request(MakeEnviron(m, l, t, h), Stream(FALSE, <<>>)) :
             m \in SampleMethods, l \in {Missing, <<"1", "0">>},
             t \in SampleContentTypes, h \in SampleHeaders }

CtorArgs(allowed, bodyless, param, header) ==
    [allowed_methods |-> allowed, bodyless_methods |-> bodyless,
     override_param |-> param, header_override |-> header]

DefaultArgs == CtorArgs(NoArg, NoArg, DefaultOverrideParam, DefaultHeaderOverride)

\* The configurations the calls are run under.
SampleConfigs ==
    { DefaultArgs,
      CtorArgs(ListArg(<<<<"p", "u", "t">>, <<"D", "e", "l", "e", "t", "e">>>>), ListArg(<<<<"p", "u", "t">>>>), <<"m">>, None),
      CtorArgs(NoArg, ListArg(<<>>), DefaultOverrideParam, <<>>) }

\* The requests of the concurrent calls.
ConcRequests ==
    { Request(MakeEnviron(POST, <<"1", "8">>, FormUrlEncoded, Missing), Stream(TRUE, <<"_", "m", "e", "t", "h", "o", "d", "=", "P", "U", "T", "&", "n", "a", "m", "e", "=", "x">>)),
      Request(MakeEnviron(GET, Missing, Missing, <<"P", "A", "T", "C", "H">>), Stream(TRUE, <<>>)),
      Request(MakeEnviron(POST, <<"1", "0">>, Missing, <<"P", "A", "T", "C", "H">>), Stream(FALSE, <<>>)) }

ConcConfigs ==
    { DefaultArgs,
      CtorArgs(ListArg(<<<<"p", "u", "t">>, <<"D", "e", "l", "e", "t", "e">>>>), ListArg(<<<<"p", "u", "t">>>>), DefaultOverrideParam, None) }

\* The arguments __init__ is tried with.
UnitAllowedArgs ==
    { NoArg, ListArg(<<>>), IterArg(<<>>), ListArg(<<GET, POST, PUT>>),
      ListArg(<<<<"p", "u", "t">>, <<"D", "e", "l", "e", "t", "e">>>>), IterArg(<<<<"p", "a", "t", "c", "h">>>>) }

UnitBodylessArgs ==
    { NoArg, ListArg(<<>>), IterArg(<<>>), ListArg(<<GET>>), ListArg(<<<<"p", "u", "t">>, <<"g", "e", "t">>>>) }

UnitConfigs ==
    { CtorArgs(a, b, p, h) :
        a \in UnitAllowedArgs, b \in UnitBodylessArgs,
        p \in {DefaultOverrideParam, <<"c", "u", "s", "t", "o", "m", "_", "m", "e", "t", "h", "o", "d">>},
        h \in {DefaultHeaderOverride, None, <<"C", "u", "s", "t", "o", "m", "-", "M", "e", "t", "h", "o", "d">>} }

UnitOriginals == {POST, GET, PUT, DELETE, <<"p", "o", "s", "t">>}

UnitOverrides == {PUT, PATCH, DELETE, POST, GET, TRACE, <<"p", "u", "t">>, <<"I", "N", "V", "A", "L", "I", "D">>}

\* The environ entries _get_headers is tried with: every subset is an environ.
UnitEntries ==
    (K_HTTP_OVERRIDE :> PUT) @@ (K_HTTP_ACCEPT :> <<"t", "e", "x", "t", "/", "h", "t", "m", "l">>)
    @@ (K_HTTP_CUSTOM :> <<"c", "u", "s", "t", "o", "m", "-", "v", "a", "l", "u", "e">>) @@ (K_HTTP_MIXED :> <<"7">>)
    @@ (K_REQUEST_METHOD :> POST) @@ (K_PATH_INFO :> <<"/", "t", "e", "s", "t">>)
    @@ (K_CONTENT_LENGTH :> <<"1", "0">>)

UnitEnvirons == {[k \in keys |-> UnitEntries[k]] : keys \in SUBSET (DOMAIN UnitEntries)}

----------------------------------------------------------------------------
(* Specifications *)

\* The middleware as __init__(args) leaves it.
Built(args) ==
    /\ mw = "built"
    /\ ctor_args = args
    /\ allowed_methods = EffectiveMethods(args.allowed_methods, DEFAULT_ALLOWED_METHODS)
    /\ bodyless_methods = EffectiveMethods(args.bodyless_methods, DEFAULT_BODYLESS_METHODS)
    /\ override_param = args.override_param
    /\ header_override = args.header_override

NoRequest == Request(<<>>, Stream(FALSE, <<>>))

\* The calls in live are entered with their requests, the others never are.
CallsStart(live, reqs) ==
    /\ pc = [c \in Calls |-> IF c \in live THEN "Start" ELSE "Idle"]
    /\ arrived = [c \in Calls |-> IF c \in live THEN reqs[c] ELSE NoRequest]
    /\ environ = [c \in Calls |-> arrived[c].environ]
    /\ wsgi_input = [c \in Calls |-> arrived[c].stream]
    /\ original_method = [c \in Calls |-> None]
    /\ override_method = [c \in Calls |-> None]
    /\ fault = [c \in Calls |-> NoFault]
    /\ app_calls = [c \in Calls |-> 0]
    /\ app_seen = [c \in Calls |-> [seen |-> NotSeen, response |-> "r0"]]
    /\ result = [c \in Calls |-> "r0"]

NoUnitCall ==
    /\ unit_fn = "none"
    /\ unit_args = <<>>
    /\ unit_ret = <<>>

\* One call of a constructed middleware.
Init ==
    /\ \E args \in SampleConfigs : Built(args)
    /\ \E req \in Requests : CallsStart({1}, [c \in Calls |-> req])
    /\ NoUnitCall

Spec == Init /\ [][Next]_vars

\* MaxCalls calls of one middleware in flight together, each with its own
\* environ and stream.
InitConc ==
    /\ \E args \in ConcConfigs : Built(args)
    /\ \E reqs \in [Calls -> ConcRequests] : CallsStart(Calls, reqs)
    /\ NoUnitCall

SpecConc == InitConc /\ [][Next]_vars

\* Construction, and the helper methods called on their own.
InitUnit ==
    /\ mw = "unbuilt"
    /\ ctor_args = DefaultArgs
    /\ allowed_methods = {}
    /\ bodyless_methods = {}
    /\ override_param = None
    /\ header_override = None
    /\ CallsStart({}, [c \in Calls |-> NoRequest])
    /\ NoUnitCall

NextUnit ==
    \/ \E args \in UnitConfigs : Build(args)
    \/ \E original \in UnitOriginals, override \in UnitOverrides :
         CallIsOverrideAllowed(original, override)
    \/ \E env \in UnitEnvirons : CallGetHeaders(env)

SpecUnit == InitUnit /\ [][NextUnit]_vars

\* One call, which the thread that entered it keeps running: __call__ is
\* synchronous and none of its steps waits for anything.
SpecLive == Init /\ [][Next]_vars /\ \A c \in Calls : WF_vars(Step(c))

----------------------------------------------------------------------------
(* Properties *)

Live == {c \in Calls : pc[c] # "Idle"}

ArrivedEnviron(c) == arrived[c].environ

ArrivedMethod(c) == DictGet(ArrivedEnviron(c), K_REQUEST_METHOD, Missing)

ArrivedLength(c) == DictGet(ArrivedEnviron(c), K_CONTENT_LENGTH, Missing)

ArrivedType(c) == DictGet(ArrivedEnviron(c), K_CONTENT_TYPE, Missing)

CurrentMethod(c) == DictGet(environ[c], K_REQUEST_METHOD, Missing)

\* _get_override_method was entered by call c and its form access was made
\* (it returned, or it raised from the form access itself).
ExtractRan(c) ==
    /\ pc[c] \notin {"Idle", "Start", "Constructed"}
    /\ ~(fault[c].exc = "Exception" /\ fault[c].at \in {"Start", "Constructed"})

\* _get_override_method returned a value to call c.
ExtractReturned(c) ==
    /\ pc[c] \notin {"Idle", "Start", "Constructed"}
    /\ fault[c].at \notin {"Start", "Constructed"}

\* The form access reads bytes of the request's body: a stream, a urlencoded
\* content type and a content length of at least one byte of a non-empty body.
ReadsBody(req) ==
    /\ req.stream.present
    /\ Mimetype(req.environ) = FormUrlEncoded
    /\ ContentLength(req.environ) > 0
    /\ Len(req.stream.data) > 0

\* C1: for every request whose body is read while the override field is
\* looked for, the stream's cursor is back at its original position when the
\* application is invoked, and a full read by the application gives the
\* original body byte for byte.
C1_BodyRestored ==
    \A c \in Calls :
        (pc[c] = "Forwarded" /\ ExtractRan(c) /\ ReadsBody(arrived[c]))
        => /\ app_seen[c].seen.pos = arrived[c].stream.pos
           /\ app_seen[c].seen.body = arrived[c].stream.data

\* No exception leaves the call, the application has been invoked once when
\* the call is Forwarded and not at all before, and the call's return value
\* is the application's.
OnceAndReturned ==
    \A c \in Calls :
        /\ pc[c] # "Raised"
        /\ app_calls[c] = IF pc[c] = "Forwarded" THEN 1 ELSE 0
        /\ pc[c] = "Forwarded" => result[c] = app_seen[c].response

\* C2: every call ends Forwarded: on every branch (no override, denied,
\* applied, or an exception in the try block) the application is invoked
\* exactly once, the call returns what the application returned, and no
\* exception of the try block leaves the call.
C2_ForwardedExactlyOnce ==
    /\ []OnceAndReturned
    /\ \A c \in Calls : (pc[c] = "Start") ~> (pc[c] = "Forwarded" /\ app_calls[c] = 1)

C2_Witness ==
    \E c \in Calls :
        /\ pc[c] = "Forwarded"
        /\ fault[c].exc = "KeyError"
        /\ app_calls[c] = 1
        /\ result[c] = "r2"

\* C3: the method handed to the application differs from the method the
\* request arrived with only if that was exactly "POST" and the new method
\* is one of allowed_methods; the same holds of the environ at every moment.
C3_OnlyPostToAllowed ==
    \A c \in Calls :
        /\ CurrentMethod(c) # ArrivedMethod(c)
           => (ArrivedMethod(c) = POST /\ CurrentMethod(c) \in allowed_methods)
        /\ (pc[c] = "Forwarded" /\ app_seen[c].seen.method # ArrivedMethod(c))
           => (ArrivedMethod(c) = POST /\ app_seen[c].seen.method \in allowed_methods)
        /\ (pc[c] = "Forwarded" /\ ArrivedMethod(c) # POST)
           => app_seen[c].seen.method = ArrivedMethod(c)

C3_Witness ==
    \E c \in Calls :
        /\ pc[c] = "Forwarded"
        /\ ArrivedMethod(c) = POST
        /\ app_seen[c].seen.method = PATCH

\* The three rules of the validator, under the default configuration, on
\* the pairs the documentation and the tests name.
DefaultExamples ==
    (ctor_args.allowed_methods = NoArg) =>
        /\ unit_args = <<GET, PUT>> => unit_ret = FALSE
        /\ unit_args = <<POST, POST>> => unit_ret = FALSE
        /\ unit_args = <<POST, TRACE>> => unit_ret = FALSE
        /\ unit_args = <<POST, <<"I", "N", "V", "A", "L", "I", "D">>>> => unit_ret = FALSE
        /\ unit_args = <<POST, PUT>> => unit_ret = TRUE
        /\ unit_args = <<POST, PATCH>> => unit_ret = TRUE
        /\ unit_args = <<POST, DELETE>> => unit_ret = TRUE

ValidatorCalled == unit_fn = "_is_override_allowed"

\* C4: _is_override_allowed(original, override) is true exactly when
\* original is the literal "POST", override is in allowed_methods and the two
\* differ; and the call changes neither the configuration nor any request.
C4_IsAllowedExact ==
    /\ [](ValidatorCalled =>
            /\ unit_ret = ( /\ unit_args[1] = POST
                            /\ unit_args[2] \in allowed_methods
                            /\ unit_args[2] # unit_args[1] )
            /\ DefaultExamples)
    /\ [][(unit_fn' = "_is_override_allowed" /\ unit_fn # "_is_override_allowed")
            => UNCHANGED <<cfgvars, callvars>>]_vars

C4_Witness ==
    /\ ValidatorCalled
    /\ ctor_args = DefaultArgs
    /\ unit_args = <<POST, DELETE>>
    /\ unit_ret = TRUE

\* The fields of the form of the request call c arrived with.
ArrivedForm(c) == LoadForm(ArrivedEnviron(c), arrived[c].stream, "replace").form

\* The override field's first value, stripped and uppercased ("" without the field).
ArrivedFormValue(c) ==
    IF FormContains(ArrivedForm(c), override_param)
    THEN Upper(Strip(FormGet(ArrivedForm(c), override_param, <<>>)))
    ELSE <<>>

HeaderConfigured == header_override # None /\ header_override # <<>>

\* The override header's value, stripped and uppercased ("" when header
\* override is switched off or the header is absent).
ArrivedHeaderValue(c) ==
    IF HeaderConfigured /\ EnvironKey(header_override) \in DOMAIN ArrivedEnviron(c)
    THEN Upper(Strip(ArrivedEnviron(c)[EnvironKey(header_override)]))
    ELSE <<>>

OverrideApplied(c) == CurrentMethod(c) # ArrivedMethod(c)

\* C6: content length and content type are changed if and only if an
\* override is applied and the new method is in bodyless_methods: then the
\* length is "0" and the type is removed; in every other case both reach
\* the application as they arrived.
C6_MetadataOnlyForBodyless ==
    \A c \in Calls :
        LET cleared == OverrideApplied(c) /\ CurrentMethod(c) \in bodyless_methods
            length == DictGet(environ[c], K_CONTENT_LENGTH, Missing)
            ctype == DictGet(environ[c], K_CONTENT_TYPE, Missing)
        IN  /\ cleared => (length = <<"0">> /\ ctype = Missing)
            /\ ~cleared => (length = ArrivedLength(c) /\ ctype = ArrivedType(c))
            /\ pc[c] = "Forwarded" =>
                 /\ app_seen[c].seen.content_length = length
                 /\ app_seen[c].seen.content_type = ctype
                 /\ app_seen[c].seen.method = CurrentMethod(c)

C6_Witness ==
    \E c \in Calls :
        /\ pc[c] = "Forwarded"
        /\ app_seen[c].seen.method = DELETE
        /\ ArrivedLength(c) = <<"1", "4">>
        /\ ArrivedType(c) = FormUrlEncoded
        /\ app_seen[c].seen.content_length = <<"0">>
        /\ app_seen[c].seen.content_type = Missing

\* An absent or empty input.
EmptyInput(arg) == arg.kind = "none" \/ Len(arg.items) = 0

\* What the documentation promises of one of the two sets.
PromisedSet(arg, default, effective) ==
    /\ effective # {}
    /\ \A m \in effective : Upper(m) = m
    /\ EmptyInput(arg) => effective = default
    /\ ~EmptyInput(arg) => effective = {Upper(m) : m \in ElementsOf(arg.items)}

\* C7: for every input the two sets held after construction are non-empty
\* and uppercase: an absent or empty input gives the default set, a non-empty
\* input the set of its elements uppercased.
C7_SetsNeverEmpty ==
    mw = "built" =>
        /\ PromisedSet(ctor_args.allowed_methods, DEFAULT_ALLOWED_METHODS, allowed_methods)
        /\ PromisedSet(ctor_args.bodyless_methods, DEFAULT_BODYLESS_METHODS, bodyless_methods)

\* The body cannot serve as a source of the override field: no stream, no
\* content length, a zero length, an empty body, or undecodable bytes.
FormUnusable(req) ==
    \/ ~req.stream.present
    \/ ContentLength(req.environ) = NoLength
    \/ ContentLength(req.environ) = 0
    \/ req.stream.data = <<>>
    \/ Contains(req.stream.data, InvalidByte)

\* The method the header path alone leads to.
MethodByHeader(c) ==
    LET h == ArrivedHeaderValue(c)
    IN  IF /\ h # <<>>
           /\ ArrivedMethod(c) = POST
           /\ h \in allowed_methods
           /\ h # POST
        THEN h
        ELSE ArrivedMethod(c)

\* C8: when the body cannot serve as a source of the override field, the
\* form path gives "no override" rather than a fault and extraction goes on
\* with the header; if the header gives nothing either, a POST request is
\* forwarded as POST with content length and content type as they arrived.
C8_UnusableBodyFallsToHeader ==
    \A c \in Calls :
        (pc[c] = "Forwarded" /\ fault[c].exc # "Exception" /\ FormUnusable(arrived[c]))
        => /\ app_seen[c].seen.method = MethodByHeader(c)
           /\ (ArrivedHeaderValue(c) = <<>> /\ ArrivedMethod(c) = POST)
              => /\ app_seen[c].seen.method = POST
                 /\ app_seen[c].seen.content_length = ArrivedLength(c)
                 /\ app_seen[c].seen.content_type = ArrivedType(c)

HeadersCalled == unit_fn = "_get_headers"

\* C9: _get_headers(environ) has one entry for each HTTP_ key and none for
\* any other key: the name is the key without the prefix, uppercased, with
\* hyphens for underscores, the value is the key's value; no HTTP_ key, no
\* entry.
C9_HeadersFromPrefixedKeys ==
    HeadersCalled =>
        LET env == unit_args
            prefixed == {k \in DOMAIN env : Len(k) >= 5 /\ SubSeq(k, 1, 5) = <<"H", "T", "T", "P", "_">>}
            NameOf(k) == ReplaceChar(Upper(SubSeq(k, 6, Len(k))), "_", "-")
        IN  /\ Cardinality(DOMAIN unit_ret) = Cardinality(prefixed)
            /\ \A k \in prefixed : /\ NameOf(k) \in DOMAIN unit_ret
                                   /\ unit_ret[NameOf(k)] = env[k]
            /\ prefixed = {} => DOMAIN unit_ret = {}
            /\ K_HTTP_OVERRIDE \in DOMAIN env
               => ( /\ <<"X", "-", "H", "T", "T", "P", "-", "M", "E", "T", "H", "O", "D", "-", "O", "V", "E", "R", "R", "I", "D", "E">> \in DOMAIN unit_ret
                    /\ unit_ret[<<"X", "-", "H", "T", "T", "P", "-", "M", "E", "T", "H", "O", "D", "-", "O", "V", "E", "R", "R", "I", "D", "E">>] = PUT )
            /\ K_HTTP_CUSTOM \in DOMAIN env
               => ( /\ <<"C", "U", "S", "T", "O", "M", "-", "H", "E", "A", "D", "E", "R">> \in DOMAIN unit_ret
                    /\ unit_ret[<<"C", "U", "S", "T", "O", "M", "-", "H", "E", "A", "D", "E", "R">>] = <<"c", "u", "s", "t", "o", "m", "-", "v", "a", "l", "u", "e">> )
            /\ K_HTTP_MIXED \in DOMAIN env
               => ( /\ <<"X", "-", "T", "R", "A", "C", "E", "-", "I", "D">> \in DOMAIN unit_ret
                    /\ unit_ret[<<"X", "-", "T", "R", "A", "C", "E", "-", "I", "D">>] = <<"7">> )

C9_Witness ==
    /\ HeadersCalled
    /\ DOMAIN unit_args = DOMAIN UnitEntries
    /\ Cardinality(DOMAIN unit_ret) = 4

\* What the application of a call is handed when the call runs alone on
\* request req and meets the exception flt (NoFault for none).
RunAlone(req, flt) ==
    LET env == req.environ
        original == DictGet(env, K_REQUEST_METHOD, GET)
        mode == IF flt.exc = "RequestEntityTooLarge" THEN "strict" ELSE "replace"
        r == GetOverrideMethod(env, req.stream, override_param, header_override, mode)
        read == [req.stream EXCEPT !.pos = r.pos]
    IN  IF flt.exc = "Exception" /\ flt.at \in {"Start", "Constructed"}
        THEN Seen(env, req.stream)
        ELSE IF r.exc # "none" \/ flt.exc = "Exception"
        THEN Seen(env, read)
        ELSE IF Truthy(r.method) /\ IsOverrideAllowed(original, r.method, allowed_methods)
        THEN Seen(ApplyOverride(env, r.method, bodyless_methods), read)
        ELSE Seen(env, read)

\* C10: no call changes the configuration; with several calls in flight,
\* each on its own request, every call hands its application what it would
\* hand it running alone (method, content length, content type, cursor), and
\* a call that has not started finds its request as it arrived.
C10_CallsIndependent ==
    /\ Built(ctor_args)
    /\ \A c \in Calls :
         /\ pc[c] = "Start" => (environ[c] = ArrivedEnviron(c) /\ wsgi_input[c] = arrived[c].stream)
         /\ pc[c] = "Forwarded" => app_seen[c].seen = RunAlone(arrived[c], fault[c])

C10_Witness ==
    \E c, d \in Calls :
        /\ c # d
        /\ pc[c] = "Forwarded"
        /\ app_seen[c].seen.method = PUT
        /\ app_seen[c].seen.pos = 18
        /\ pc[d] = "Caught"
        /\ fault[d].exc = "KeyError"
        /\ CurrentMethod(d) = POST

====
